---- MODULE Spec2Model ----
(***************************************************************************)
(* Model of the struct-field validation library (validation.go):          *)
(* the field resolver (getField / getFieldByJsonTag), the rule engine     *)
(* (Validate) and the built-in validators.                                 *)
(*                                                                         *)
(* Go strings that the code inspects character by character (the values   *)
(* under validation, content types) are sequences of one-character        *)
(* strings.  Field names, json tags and messages are only compared,       *)
(* concatenated and formatted, and are TLA+ strings.                       *)
(***************************************************************************)
EXTENDS Integers, Sequences, FiniteSets, TLC

(***************************************************************************)
(* Bounds of the model.                                                    *)
(***************************************************************************)
\* largest length/size configuration given to MinLength, MaxLength, FileSize
MaxConfig == 3
\* largest number of items of a slice or map value
MaxItems == 2
\* largest number of rules in a rule set
MaxRules == 2

(***************************************************************************)
(* Characters.                                                             *)
(***************************************************************************)
Digits == {"0", "1", "2", "3", "4", "5", "6", "7", "8", "9"}
LowerLetters == {"a", "b", "c", "d", "e", "f", "g", "h", "i", "j", "k", "l", "m",
                 "n", "o", "p", "q", "r", "s", "t", "u", "v", "w", "x", "y", "z"}
UpperLetters == {"A", "B", "C", "D", "E", "F", "G", "H", "I", "J", "K", "L", "M",
                 "N", "O", "P", "Q", "R", "S", "T", "U", "V", "W", "X", "Y", "Z"}
Letters == LowerLetters \cup UpperLetters
\* \w of the regexp package
WordChars == Letters \cup Digits \cup {"_"}

DigitVal == ("0" :> 0) @@ ("1" :> 1) @@ ("2" :> 2) @@ ("3" :> 3) @@ ("4" :> 4) @@
            ("5" :> 5) @@ ("6" :> 6) @@ ("7" :> 7) @@ ("8" :> 8) @@ ("9" :> 9)

LowerOf == ("A" :> "a") @@ ("B" :> "b") @@ ("C" :> "c") @@ ("D" :> "d") @@ ("E" :> "e") @@
           ("F" :> "f") @@ ("G" :> "g") @@ ("H" :> "h") @@ ("I" :> "i") @@ ("J" :> "j") @@
           ("K" :> "k") @@ ("L" :> "l") @@ ("M" :> "m") @@ ("N" :> "n") @@ ("O" :> "o") @@
           ("P" :> "p") @@ ("Q" :> "q") @@ ("R" :> "r") @@ ("S" :> "s") @@ ("T" :> "t") @@
           ("U" :> "u") @@ ("V" :> "v") @@ ("W" :> "w") @@ ("X" :> "x") @@ ("Y" :> "y") @@
           ("Z" :> "z")

\* strings.ToLower
ToLower(s) == [k \in 1..Len(s) |-> IF s[k] \in UpperLetters THEN LowerOf[s[k]] ELSE s[k]]

\* strings.HasPrefix
HasPrefix(s, prefix) == /\ Len(s) >= Len(prefix)
                        /\ SubSeq(s, 1, Len(prefix)) = prefix

\* strings.TrimPrefix
TrimPrefix(s, prefix) == IF HasPrefix(s, prefix) THEN SubSeq(s, Len(prefix) + 1, Len(s)) ELSE s

AllIn(s, class) == \A k \in 1..Len(s) : s[k] \in class

\* decimal value of a string of digits (strconv-style atoi used by time.Parse)
RECURSIVE atoi(_)
atoi(s) == IF Len(s) = 0 THEN 0
           ELSE 10 * atoi(SubSeq(s, 1, Len(s) - 1)) + DigitVal[s[Len(s)]]

(***************************************************************************)
(* String literals of the source and sample strings.                       *)
(***************************************************************************)
P_image == <<"i", "m", "a", "g", "e", "/">>
P_application == <<"a", "p", "p", "l", "i", "c", "a", "t", "i", "o", "n", "/">>
P_http == <<"h", "t", "t", "p", ":", "/", "/">>
P_https == <<"h", "t", "t", "p", "s", ":", "/", "/">>
CT_png == <<"i", "m", "a", "g", "e", "/", "p", "n", "g">>
CT_jpg == <<"i", "m", "a", "g", "e", "/", "j", "p", "g">>
CT_jpeg == <<"i", "m", "a", "g", "e", "/", "j", "p", "e", "g">>
CT_svg == <<"i", "m", "a", "g", "e", "/", "s", "v", "g", "+", "x", "m", "l">>
CT_gif == <<"i", "m", "a", "g", "e", "/", "g", "i", "f">>
CT_pdf == <<"a", "p", "p", "l", "i", "c", "a", "t", "i", "o", "n", "/", "p", "d", "f">>
CT_PDF == <<"a", "p", "p", "l", "i", "c", "a", "t", "i", "o", "n", "/", "P", "D", "F">>
CT_text == <<"t", "e", "x", "t", "/", "p", "l", "a", "i", "n">>
T_pdf == <<"p", "d", "f">>
T_zip == <<"z", "i", "p">>
S_Jo == <<"J", "o">>
S_John == <<"J", "o", "h", "n">>
S_123456 == <<"1", "2", "3", "4", "5", "6">>
S_email == <<"a", "@", "b", ".", "c", "o">>
S_notEmail == <<"n", "o", "t", "-", "a", "n", "-", "e", "m", "a", "i", "l">>
S_phone == <<"+", "8", "8", "0", "1", "7", "1", "2">>
S_badPhone == <<"+", "0", "1", "2", "3">>
S_url == <<"h", "t", "t", "p", ":", "/", "/", "a", ".", "i", "o", "/", "x">>
S_https == <<"h", "t", "t", "p", "s", ":", "/", "/", "g", "o", ".", "d", "e", "v">>
S_badUrl == <<"f", "t", "p", ":", "/", "/", "a", ".", "i", "o">>
S_urlNoDot == <<"h", "t", "t", "p", ":", "/", "/", "l", "o", "c", "a", "l", "h", "o", "s", "t">>
S_neg == <<"-", "1", "2">>
S_dec == <<"1", ".", "5">>
D_slash == <<"2", "0", "2", "3", "/", "0", "1", "/", "1", "5">>
D_short == <<"2", "0", "2", "3", "-", "1", "-", "1", "5">>
D_alpha == <<"2", "0", "a", "3", "-", "0", "1", "-", "1", "5">>
D_long == <<"2", "0", "2", "3", "-", "0", "1", "-", "1", "5", "0">>
D_word == <<"t", "o", "d", "a", "y">>
D_nl == <<"2", "0", "2", "3", "-", "0", "1", "-", "1", "5", "\n">>
D_dmy == <<"1", "5", "-", "0", "1", "-", "2", "0", "2", "3">>

(***************************************************************************)
(* Values of type interface{}.  kind "nil" is the nil interface; a file    *)
(* is a *multipart.FileHeader, which may be a nil pointer (nilptr); str    *)
(* is the string, or the Content-Type header of a file; n is the integer   *)
(* or float value, the length of a slice or map, or the Size of a file.    *)
(***************************************************************************)
NilValue == [kind |-> "nil", str |-> <<>>, n |-> 0, nilptr |-> FALSE]
StringValue(s) == [kind |-> "string", str |-> s, n |-> 0, nilptr |-> FALSE]
IntValue(k) == [kind |-> "int", str |-> <<>>, n |-> k, nilptr |-> FALSE]
FloatValue(k) == [kind |-> "float64", str |-> <<>>, n |-> k, nilptr |-> FALSE]
SliceValue(len) == [kind |-> "slice", str |-> <<>>, n |-> len, nilptr |-> FALSE]
MapValue(len) == [kind |-> "map", str |-> <<>>, n |-> len, nilptr |-> FALSE]
FileValue(contentType, size) == [kind |-> "file", str |-> contentType, n |-> size, nilptr |-> FALSE]
NilFileValue == [kind |-> "file", str |-> <<>>, n |-> 0, nilptr |-> TRUE]

\* reflect.TypeOf(value).Kind()
KindOf(value) == IF value.kind = "file" THEN "ptr" ELSE value.kind

(***************************************************************************)
(* ValidationErrorItem, and the outcome of a call: a returned item or a    *)
(* run-time panic.                                                         *)
(***************************************************************************)
ValidationErrorItem(field, message) == [Field |-> field, Message |-> message]
NoError == ValidationErrorItem("", "")
Return(item) == [panic |-> FALSE, item |-> item]
Fail(message) == Return(ValidationErrorItem("", message))
Pass == Return(NoError)
Panic == [panic |-> TRUE, item |-> NoError]

\* value == nil || value == ""
IsNilOrEmpty(value) == \/ value.kind = "nil"
                       \/ (value.kind = "string" /\ value.str = <<>>)

(***************************************************************************)
(* Regular expressions of the validators, matched over the whole string    *)
(* (every pattern is anchored with ^ and $).                               *)
(***************************************************************************)
EmailLocalChars == Letters \cup Digits \cup {".", "_", "%", "+", "-"}
EmailDomainChars == Letters \cup Digits \cup {".", "-"}

\* ^[a-zA-Z0-9._%+\-]+@[a-zA-Z0-9.\-]+\.[a-zA-Z]{2,}$
emailRegex(s) ==
    \E a \in 1..Len(s), d \in 1..Len(s) :
        /\ a > 1
        /\ s[a] = "@"
        /\ AllIn(SubSeq(s, 1, a - 1), EmailLocalChars)
        /\ d > a + 1
        /\ s[d] = "."
        /\ AllIn(SubSeq(s, a + 1, d - 1), EmailDomainChars)
        /\ Len(s) - d >= 2
        /\ AllIn(SubSeq(s, d + 1, Len(s)), Letters)

\* ^\+[1-9]\d{1,14}$
phoneRegex(s) ==
    /\ Len(s) >= 3
    /\ Len(s) <= 16
    /\ s[1] = "+"
    /\ s[2] \in Digits \ {"0"}
    /\ \A k \in 3..Len(s) : s[k] \in Digits

UrlHostChars == WordChars \cup {"-"}
UrlTailChars == WordChars \cup {"-", ".", ",", "@", "?", "^", "=", "%", "&", ":", "/", "~", "+", "#"}
UrlTailLast == WordChars \cup {"-", "@", "?", "^", "=", "%", "&", "/", "~", "+", "#"}

\* [\w\-_]+(\.[\w\-_]+)+
UrlHost(h) ==
    /\ Len(h) > 0
    /\ AllIn(h, UrlHostChars \cup {"."})
    /\ h[1] # "."
    /\ h[Len(h)] # "."
    /\ \E k \in 1..Len(h) : h[k] = "."
    /\ \A k \in 1..(Len(h) - 1) : ~(h[k] = "." /\ h[k + 1] = ".")

\* ([\w\-\.,@?^=%&:/~\+#]*[\w\-\@?^=%&/~\+#])?
UrlTail(t) ==
    \/ Len(t) = 0
    \/ /\ AllIn(t, UrlTailChars)
       /\ t[Len(t)] \in UrlTailLast

\* ^(http|https)://[\w\-_]+(\.[\w\-_]+)+([\w\-\.,@?^=%&:/~\+#]*[\w\-\@?^=%&/~\+#])?$
urlPattern(s) ==
    \E prefix \in {P_http, P_https} :
        /\ HasPrefix(s, prefix)
        /\ LET rest == TrimPrefix(s, prefix)
           IN  \E h \in 1..Len(rest) :
                   /\ UrlHost(SubSeq(rest, 1, h))
                   /\ UrlTail(SubSeq(rest, h + 1, Len(rest)))

\* ^[0-9]+$
numericRegex(s) == Len(s) > 0 /\ AllIn(s, Digits)

\* ^\d{4}-\d{2}-\d{2}$
dateRegex(s) ==
    /\ Len(s) = 10
    /\ \A k \in {1, 2, 3, 4, 6, 7, 9, 10} : s[k] \in Digits
    /\ s[5] = "-"
    /\ s[8] = "-"

(***************************************************************************)
(* time.Parse("2006-01-02", s): a four-digit year, a two-digit month in    *)
(* 1..12 and a two-digit day that exists in that month of that year.       *)
(***************************************************************************)
isLeap(year) == year % 4 = 0 /\ (year % 100 # 0 \/ year % 400 = 0)

daysIn(month, year) ==
    IF month = 2 THEN (IF isLeap(year) THEN 29 ELSE 28)
    ELSE IF month \in {4, 6, 9, 11} THEN 30 ELSE 31

timeParse(s) ==
    IF ~ ( /\ Len(s) = 10
           /\ AllIn(SubSeq(s, 1, 4), Digits)
           /\ s[5] = "-"
           /\ AllIn(SubSeq(s, 6, 7), Digits)
           /\ s[8] = "-"
           /\ AllIn(SubSeq(s, 9, 10), Digits) )
    THEN [err |-> TRUE, Year |-> 0, Month |-> 0, Day |-> 0]
    ELSE LET year == atoi(SubSeq(s, 1, 4))
             month == atoi(SubSeq(s, 6, 7))
             day == atoi(SubSeq(s, 9, 10))
         IN  IF month <= 0 \/ 12 < month
             THEN [err |-> TRUE, Year |-> 0, Month |-> 0, Day |-> 0]
             ELSE IF day < 1 \/ day > daysIn(month, year)
             THEN [err |-> TRUE, Year |-> 0, Month |-> 0, Day |-> 0]
             ELSE [err |-> FALSE, Year |-> year, Month |-> month, Day |-> day]

(***************************************************************************)
(* The built-in validators.  Each returns Pass, Fail(message) or Panic.    *)
(***************************************************************************)
\* RequiredValidation without the slice/map case
RequiredValidationNoCollections(value) ==
    IF IsNilOrEmpty(value) THEN Fail("Field is required")
    ELSE Pass

RequiredValidation(value) ==
    IF IsNilOrEmpty(value) THEN Fail("Field is required")
    ELSE IF KindOf(value) = "string"
         THEN (IF value.str = <<>> THEN Fail("Field is required") ELSE Pass)
    ELSE IF KindOf(value) \in {"slice", "map"}
         THEN (IF value.n = 0 THEN Fail("Field is required") ELSE Pass)
    ELSE Pass

\* MinLengthValidation without the early return on nil or ""
MinLengthValidationNoAbsent(minLength, value) ==
    IF value.kind = "nil" THEN Panic
    ELSE IF KindOf(value) = "string"
         THEN (IF Len(value.str) < minLength
               THEN Fail("Field must be at least " \o ToString(minLength) \o " characters long")
               ELSE Pass)
    ELSE IF KindOf(value) \in {"slice", "map"}
         THEN (IF value.n < minLength
               THEN Fail("Field must have at least " \o ToString(minLength) \o " items")
               ELSE Pass)
    ELSE Pass

MinLengthValidation(minLength, value) ==
    IF IsNilOrEmpty(value) THEN Pass
    ELSE IF KindOf(value) = "string"
         THEN (IF Len(value.str) < minLength
               THEN Fail("Field must be at least " \o ToString(minLength) \o " characters long")
               ELSE Pass)
    ELSE IF KindOf(value) \in {"slice", "map"}
         THEN (IF value.n < minLength
               THEN Fail("Field must have at least " \o ToString(minLength) \o " items")
               ELSE Pass)
    ELSE Pass

\* MaxLengthValidation whose early return covers nil only
MaxLengthValidationNilOnly(maxLength, value) ==
    IF value.kind = "nil" THEN Pass
    ELSE IF KindOf(value) = "string"
         THEN (IF Len(value.str) > maxLength
               THEN Fail("Field must not exceed " \o ToString(maxLength) \o " characters")
               ELSE Pass)
    ELSE IF KindOf(value) \in {"slice", "map"}
         THEN (IF value.n > maxLength
               THEN Fail("Field must not have more than " \o ToString(maxLength) \o " items")
               ELSE Pass)
    ELSE Pass

MaxLengthValidation(maxLength, value) ==
    IF IsNilOrEmpty(value) THEN Pass
    ELSE IF KindOf(value) = "string"
         THEN (IF Len(value.str) > maxLength
               THEN Fail("Field must not exceed " \o ToString(maxLength) \o " characters")
               ELSE Pass)
    ELSE IF KindOf(value) \in {"slice", "map"}
         THEN (IF value.n > maxLength
               THEN Fail("Field must not have more than " \o ToString(maxLength) \o " items")
               ELSE Pass)
    ELSE Pass

EmailValidation(value) ==
    IF IsNilOrEmpty(value) THEN Pass
    ELSE IF value.kind # "string" THEN Pass
    ELSE IF ~emailRegex(value.str) THEN Fail("Field must be a valid email address")
    ELSE Pass

\* value.(string) is an unchecked type assertion: it panics on a non-string
PhoneValidation(value) ==
    IF IsNilOrEmpty(value) THEN Pass
    ELSE IF value.kind # "string" THEN Panic
    ELSE IF ~phoneRegex(value.str) THEN Fail("Invalid phone number format")
    ELSE Pass

URLValidation(value) ==
    IF IsNilOrEmpty(value) THEN Pass
    ELSE IF value.kind # "string" THEN Fail("Value is not a string")
    ELSE IF ~urlPattern(value.str) THEN Fail("Value is not a valid URL")
    ELSE Pass

StringValidation(value) ==
    IF IsNilOrEmpty(value) THEN Pass
    ELSE IF KindOf(value) = "string" THEN Pass
    ELSE Fail("Field must be a string")

NumericValidation(value) ==
    IF IsNilOrEmpty(value) THEN Pass
    ELSE IF KindOf(value) = "string"
         THEN (IF ~numericRegex(value.str) THEN Fail("Field must be numeric") ELSE Pass)
    ELSE IF KindOf(value) = "int" THEN Pass
    ELSE Fail("Field must be numeric")

\* DateValidation without the time.Parse step
DateValidationShapeOnly(value) ==
    IF IsNilOrEmpty(value) THEN Pass
    ELSE IF value.kind # "string" THEN Fail("Invalid date format")
    ELSE IF ~dateRegex(value.str) THEN Fail("Invalid date format")
    ELSE LET year == atoi(SubSeq(value.str, 1, 4))
         IN  IF year < 1 \/ year > 9999 THEN Fail("Invalid year") ELSE Pass

DateValidation(value) ==
    IF IsNilOrEmpty(value) THEN Pass
    ELSE IF value.kind # "string" THEN Fail("Invalid date format")
    ELSE IF ~dateRegex(value.str) THEN Fail("Invalid date format")
    ELSE LET date == timeParse(value.str)
         IN  IF date.err THEN Fail("Invalid date")
             ELSE IF date.Year < 1 \/ date.Year > 9999 THEN Fail("Invalid year")
             ELSE IF date.Month < 1 \/ date.Month > 12 THEN Fail("Invalid month")
             ELSE IF date.Day < 1 \/ date.Day > 31 THEN Fail("Invalid day")
             ELSE Pass

\* file.Header dereferences the handle: a nil *multipart.FileHeader panics
ImageValidation(value) ==
    IF IsNilOrEmpty(value) THEN Pass
    ELSE IF value.kind # "file" THEN Fail("Invalid file format")
    ELSE IF value.nilptr THEN Panic
    ELSE IF ~HasPrefix(value.str, P_image) THEN Fail("File must be an image")
    ELSE Pass

FileSizeValidation(maxSize, value) ==
    IF IsNilOrEmpty(value) THEN Pass
    ELSE IF value.kind # "file" THEN Fail("Invalid file format")
    ELSE IF value.nilptr THEN Panic
    ELSE IF value.n > maxSize
         THEN Fail("File size must be less than " \o ToString(maxSize) \o " bytes")
    ELSE Pass

RECURSIVE contains(_, _)
contains(s, e) ==
    IF Len(s) = 0 THEN FALSE
    ELSE IF Head(s) = e THEN TRUE
    ELSE contains(Tail(s), e)

allowedMimeTypes == <<CT_png, CT_jpg, CT_jpeg, CT_svg>>

ImageMimeValidation(value) ==
    IF IsNilOrEmpty(value) THEN Pass
    ELSE IF value.kind # "file" THEN Fail("Invalid file format")
    ELSE IF value.nilptr THEN Panic
    ELSE IF ~contains(allowedMimeTypes, value.str) THEN Fail("File must be a PNG, JPG, JPEG or SVG")
    ELSE Pass

FileValidation(value) ==
    IF IsNilOrEmpty(value) THEN Pass
    ELSE IF value.kind # "file" THEN Fail("Invalid file format")
    ELSE Pass

FileTypeValidation(value, validTypes) ==
    IF IsNilOrEmpty(value) THEN Pass
    ELSE IF value.kind # "file" THEN Fail("Invalid file format")
    ELSE IF value.nilptr THEN Panic
    ELSE LET fileType == ToLower(TrimPrefix(value.str, P_application))
         IN  IF ~contains(validTypes, fileType) THEN Fail("File type is not allowed")
             ELSE Pass

(***************************************************************************)
(* Validation functions as values: the entries of ValidationRule's         *)
(* Validations.  fn names the function, cfg is the configuration a factory *)
(* closes over, types the validTypes given to FileTypeValidation, and ret  *)
(* the item a caller-defined function returns.                             *)
(***************************************************************************)
Validation(fn, cfg) == [fn |-> fn, cfg |-> cfg, types |-> <<>>, ret |-> NoError]
FileTypeOf(validTypes) == [fn |-> "FileTypeValidation", cfg |-> 0, types |-> validTypes, ret |-> NoError]
Custom(item) == [fn |-> "custom", cfg |-> 0, types |-> <<>>, ret |-> item]

\* validation(fieldValue): the call of a function value
Apply(validation, value) ==
    CASE validation.fn = "RequiredValidation" -> RequiredValidation(value)
      [] validation.fn = "MinLengthValidation" -> MinLengthValidation(validation.cfg, value)
      [] validation.fn = "MaxLengthValidation" -> MaxLengthValidation(validation.cfg, value)
      [] validation.fn = "EmailValidation" -> EmailValidation(value)
      [] validation.fn = "PhoneValidation" -> PhoneValidation(value)
      [] validation.fn = "URLValidation" -> URLValidation(value)
      [] validation.fn = "StringValidation" -> StringValidation(value)
      [] validation.fn = "NumericValidation" -> NumericValidation(value)
      [] validation.fn = "DateValidation" -> DateValidation(value)
      [] validation.fn = "ImageValidation" -> ImageValidation(value)
      [] validation.fn = "FileSizeValidation" -> FileSizeValidation(validation.cfg, value)
      [] validation.fn = "ImageMimeValidation" -> ImageMimeValidation(value)
      [] validation.fn = "FileValidation" -> FileValidation(value)
      [] validation.fn = "FileTypeValidation" -> FileTypeValidation(value, validation.types)
      [] validation.fn = "custom" -> Return(validation.ret)

ValidationRule(field, description, validations) ==
    [Field |-> field, Description |-> description, Validations |-> validations]

(***************************************************************************)
(* The data given to Validate, as reflection sees it: depth non-nil        *)
(* pointers leading to base, which is a struct, a nil pointer, the nil     *)
(* interface or a value of another kind.  A struct field has its json tag  *)
(* (the whole tag value, "" when there is none), whether its Go name is    *)
(* exported, and its current value; a field of type interface{} holding    *)
(* nil has the value NilValue.                                             *)
(***************************************************************************)
StructField(tag, exported, value) == [tag |-> tag, exported |-> exported, value |-> value]
Struct(fields) == [depth |-> 0, base |-> "struct", fields |-> fields]
PointerTo(data) == [data EXCEPT !.depth = @ + 1]
NilPointer == [depth |-> 0, base |-> "nilptr", fields |-> <<>>]
NilData == [depth |-> 0, base |-> "nil", fields |-> <<>>]
MapData == [depth |-> 0, base |-> "map", fields |-> <<>>]

\* val.Kind()
Kind(val) == IF val.depth > 0 \/ val.base = "nilptr" THEN "ptr"
             ELSE IF val.base = "nil" THEN "invalid"
             ELSE val.base

\* val.Elem() of a pointer: the zero Value for a nil pointer
Elem(val) == IF val.depth > 0 THEN [val EXCEPT !.depth = @ - 1]
             ELSE [depth |-> 0, base |-> "nil", fields |-> <<>>]

\* for val.Kind() == reflect.Ptr { val = val.Elem() }
RECURSIVE Indirect(_)
Indirect(val) == IF Kind(val) = "ptr" THEN Indirect(Elem(val)) ELSE val

\* the loop over the fields, from field i on; val.Field(i).Interface()
\* panics for a field that is not exported
RECURSIVE FieldLoop(_, _, _)
FieldLoop(fields, field, i) ==
    IF i > Len(fields) THEN [panic |-> FALSE, value |-> NilValue]
    ELSE IF fields[i].tag = field
         THEN (IF fields[i].exported
               THEN [panic |-> FALSE, value |-> fields[i].value]
               ELSE [panic |-> TRUE, value |-> NilValue])
    ELSE FieldLoop(fields, field, i + 1)

getFieldByJsonTag(d, field) ==
    LET val == Indirect(d)
    IN  IF Kind(val) # "struct" THEN [panic |-> FALSE, value |-> NilValue]
        ELSE FieldLoop(val.fields, field, 1)

\* err is the error's text, "" for a nil error
getField(d, field) ==
    LET found == getFieldByJsonTag(d, field)
    IN  IF found.panic THEN [panic |-> TRUE, value |-> NilValue, err |-> ""]
        ELSE IF found.value = NilValue
             THEN [panic |-> FALSE, value |-> NilValue, err |-> "field not found: " \o field]
        ELSE [panic |-> FALSE, value |-> found.value, err |-> ""]

(***************************************************************************)
(* Inputs.                                                                 *)
(***************************************************************************)
Configs == (0 - 1)..MaxConfig
Sizes == 0..MaxItems

SampleStrings == {<<>>, S_Jo, S_John, S_123456, S_email, S_notEmail, S_phone, S_badPhone,
                  S_url, S_https, S_badUrl, S_urlNoDot, S_neg, S_dec, D_slash, D_word}

SampleFiles == {FileValue(CT_png, 500), FileValue(CT_gif, 1500), FileValue(CT_pdf, 2),
                FileValue(CT_PDF, 0), FileValue(CT_text, 1), FileValue(<<>>, 3), NilFileValue}

SampleValues ==
    {NilValue}
    \cup {StringValue(s) : s \in SampleStrings}
    \cup {IntValue(k) : k \in {0 - 5, 0, 7}}
    \cup {FloatValue(k) : k \in {0, 2}}
    \cup {SliceValue(n) : n \in Sizes}
    \cup {MapValue(n) : n \in Sizes}
    \cup SampleFiles

BuiltinValidations ==
    {Validation(fn, 0) : fn \in {"RequiredValidation", "EmailValidation", "PhoneValidation",
                                 "URLValidation", "StringValidation", "NumericValidation",
                                 "DateValidation", "ImageValidation", "ImageMimeValidation",
                                 "FileValidation"}}
    \cup {Validation(fn, n) : fn \in {"MinLengthValidation", "MaxLengthValidation"}, n \in Configs}
    \cup {Validation("FileSizeValidation", n) : n \in Configs \cup {1000}}
    \cup {FileTypeOf(types) : types \in {<<>>, <<T_pdf, T_zip>>}}

\* strings of the shape YYYY-MM-DD, and strings that are not of that shape
YearStrings == {<<"0", "0", "0", "0">>, <<"0", "0", "0", "1">>, <<"1", "9", "0", "0">>,
                <<"2", "0", "0", "0">>, <<"2", "0", "2", "3">>, <<"2", "0", "2", "4">>,
                <<"9", "9", "9", "9">>}
MonthStrings == {<<a, b>> : a \in {"0", "1"}, b \in Digits}
DayStrings == {<<a, b>> : a \in {"0", "1", "2", "3"}, b \in Digits}
ShapedDates == {y \o <<"-">> \o m \o <<"-">> \o d : y \in YearStrings, m \in MonthStrings, d \in DayStrings}
UnshapedDates == {D_slash, D_short, D_alpha, D_long, D_word, D_nl, D_dmy, S_Jo, S_123456}
DateValues == {StringValue(s) : s \in ShapedDates \cup UnshapedDates}

\* records: the User of the example programs with its tags matching the rules
User(name, password) ==
    Struct(<<StructField("name", TRUE, name), StructField("password", TRUE, password)>>)

NameValues == {NilValue, StringValue(<<>>), StringValue(S_Jo), IntValue(7)}
PasswordValues == {StringValue(<<>>), StringValue(S_123456), NilFileValue}

SampleRecords ==
    {User(n, p) : n \in NameValues, p \in PasswordValues}
    \cup {PointerTo(User(StringValue(S_Jo), StringValue(S_123456))),
          PointerTo(PointerTo(User(StringValue(<<>>), StringValue(<<>>)))),
          NilPointer, NilData, MapData, Struct(<<>>),
          \* the User of the example programs, whose Name has the tag first_name
          Struct(<<StructField("first_name", TRUE, StringValue(S_John)),
                   StructField("password", TRUE, StringValue(S_123456))>>),
          \* a tag with an option is compared whole
          Struct(<<StructField("name,omitempty", TRUE, StringValue(S_John)),
                   StructField("password", TRUE, StringValue(<<>>))>>),
          \* two fields with the same tag
          Struct(<<StructField("name", TRUE, StringValue(<<>>)),
                   StructField("name", TRUE, StringValue(S_John))>>),
          \* a field that is not exported
          Struct(<<StructField("name", FALSE, StringValue(S_John)),
                   StructField("password", TRUE, StringValue(S_123456))>>)}

NameRule == ValidationRule("name", "Name",
                <<Validation("RequiredValidation", 0), Validation("MinLengthValidation", 3),
                  Validation("MaxLengthValidation", 50)>>)
PasswordRule == ValidationRule("password", "Password",
                <<Validation("RequiredValidation", 0), Validation("MinLengthValidation", 6),
                  Validation("MaxLengthValidation", 50)>>)

SampleRules ==
    {NameRule, PasswordRule,
     ValidationRule("email", "Email", <<Validation("RequiredValidation", 0), Validation("EmailValidation", 0)>>),
     ValidationRule("name", "Name", <<>>),
     ValidationRule("name", "Name",
         <<Validation("MinLengthValidation", 3), Validation("StringValidation", 0),
           Validation("NumericValidation", 0)>>),
     ValidationRule("password", "Password",
         <<Validation("PhoneValidation", 0), Validation("ImageValidation", 0)>>),
     ValidationRule("name", "Name",
         <<Custom(ValidationErrorItem("other", "")), Custom(ValidationErrorItem("", "bad")),
           Custom(NoError)>>)}

RECURSIVE SeqsUpTo(_, _)
SeqsUpTo(S, n) ==
    IF n = 0 THEN {<<>>}
    ELSE LET shorter == SeqsUpTo(S, n - 1)
         IN  shorter \cup {Append(s, x) : s \in shorter, x \in S}

RuleSets == SeqsUpTo(SampleRules, MaxRules)

\* inputs of the repeated calls
CallRecords == {User(StringValue(S_Jo), StringValue(S_123456)),
                User(StringValue(<<>>), StringValue(<<>>)),
                User(NilValue, NilFileValue),
                Struct(<<StructField("name", TRUE, StringValue(S_Jo)),
                         StructField("password", FALSE, StringValue(S_123456))>>),
                NilPointer}
CallRuleSets == {<<>>, <<NameRule>>, <<NameRule, PasswordRule>>, <<PasswordRule, NameRule>>,
                 <<ValidationRule("email", "Email", <<Validation("RequiredValidation", 0)>>), NameRule>>,
                 <<ValidationRule("password", "Password", <<Validation("ImageValidation", 0)>>)>>}

(***************************************************************************)
(* State.                                                                  *)
(*   data, rules      the arguments of the current call of Validate        *)
(*   pc               "idle", "rules" (head of the loop over the rules),   *)
(*                    "validations" (head of the loop over a rule's        *)
(*                    validations), "returned", "panicked"; and for a      *)
(*                    single validator "arg", "applied"                    *)
(*   ruleIdx          index of the current rule                            *)
(*   validationIdx    index of the current validation of the rule          *)
(*   fieldValue       the resolved value of the current rule's field       *)
(*   validationErrs   the list under construction, returned at the end     *)
(*   trace            history: the field lookups that failed and the       *)
(*                    validation calls made, in order, with what each      *)
(*                    call returned                                        *)
(*   memo             history: an earlier call with its result             *)
(*   arg, applied, outcome   a single validator call: its argument, the    *)
(*                    validator and what it returned                       *)
(***************************************************************************)
VARIABLES data, rules, pc, ruleIdx, validationIdx, fieldValue, validationErrs,
          trace, memo, arg, applied, outcome

vars == <<data, rules, pc, ruleIdx, validationIdx, fieldValue, validationErrs,
          trace, memo, arg, applied, outcome>>

NoValidation == Validation("none", 0)
NoCall == [called |-> FALSE, data |-> NilData, rules |-> <<>>, result |-> <<>>, later |-> 0]

Init ==
    /\ data = NilData
    /\ rules = <<>>
    /\ pc = "idle"
    /\ ruleIdx = 1
    /\ validationIdx = 1
    /\ fieldValue = NilValue
    /\ validationErrs = <<>>
    /\ trace = <<>>
    /\ memo = NoCall
    /\ arg = NilValue
    /\ applied = NoValidation
    /\ outcome = Pass

(***************************************************************************)
(* Validate(data, rules), one loop step per action.                        *)
(***************************************************************************)
\* at is the position of the item the step appended to validationErrs, 0 when
\* it appended none
Event(op, rule, validation, ret, at) ==
    [op |-> op, rule |-> rule, validation |-> validation, ret |-> ret, at |-> at]

\* memo.later counts the calls entered since the remembered one, up to 2
Later(m) == IF m.called /\ m.later < 2 THEN [m EXCEPT !.later = @ + 1] ELSE m

\* Validate is entered, but validationErrs is kept from the call before
CallKeepingErrs(d, rs) ==
    /\ pc \in {"idle", "returned", "panicked"}
    /\ data' = d
    /\ rules' = rs
    /\ ruleIdx' = 1
    /\ validationIdx' = 1
    /\ fieldValue' = NilValue
    /\ validationErrs' = validationErrs
    /\ trace' = <<>>
    /\ pc' = "rules"
    /\ memo' = Later(memo)
    /\ UNCHANGED <<arg, applied, outcome>>

\* Validate is entered: var validationErrs []ValidationErrorItem
Call(d, rs) ==
    /\ pc \in {"idle", "returned", "panicked"}
    /\ data' = d
    /\ rules' = rs
    /\ ruleIdx' = 1
    /\ validationIdx' = 1
    /\ fieldValue' = NilValue
    /\ validationErrs' = <<>>
    /\ trace' = <<>>
    /\ pc' = "rules"
    /\ memo' = Later(memo)
    /\ UNCHANGED <<arg, applied, outcome>>

\* the field lookup fails, but the continue is missing
FieldNotFoundNoContinue ==
    /\ pc = "rules"
    /\ ruleIdx <= Len(rules)
    /\ LET rule == rules[ruleIdx]
           got == getField(data, rule.Field)
       IN  /\ ~got.panic
           /\ got.err # ""
           /\ validationErrs' = Append(validationErrs, ValidationErrorItem(rule.Field, got.err))
           /\ trace' = Append(trace, Event("notfound", ruleIdx, 0, NoError, Len(validationErrs) + 1))
           /\ fieldValue' = got.value
    /\ validationIdx' = 1
    /\ pc' = "validations"
    /\ UNCHANGED <<data, rules, ruleIdx, memo, arg, applied, outcome>>

\* getField returns an error: one item, and on to the next rule
FieldNotFound ==
    /\ pc = "rules"
    /\ ruleIdx <= Len(rules)
    /\ LET rule == rules[ruleIdx]
           got == getField(data, rule.Field)
       IN  /\ ~got.panic
           /\ got.err # ""
           /\ validationErrs' = Append(validationErrs, ValidationErrorItem(rule.Field, got.err))
           /\ trace' = Append(trace, Event("notfound", ruleIdx, 0, NoError, Len(validationErrs) + 1))
    /\ ruleIdx' = ruleIdx + 1
    /\ UNCHANGED <<data, rules, pc, validationIdx, fieldValue, memo, arg, applied, outcome>>

\* getField returns the value: the loop over the rule's validations starts
FieldResolved ==
    /\ pc = "rules"
    /\ ruleIdx <= Len(rules)
    /\ LET got == getField(data, rules[ruleIdx].Field)
       IN  /\ ~got.panic
           /\ got.err = ""
           /\ fieldValue' = got.value
    /\ validationIdx' = 1
    /\ pc' = "validations"
    /\ UNCHANGED <<data, rules, ruleIdx, validationErrs, trace, memo, arg, applied, outcome>>

\* reflection panics in getFieldByJsonTag: Validate does not return
FieldPanics ==
    /\ pc = "rules"
    /\ ruleIdx <= Len(rules)
    /\ getField(data, rules[ruleIdx].Field).panic
    /\ pc' = "panicked"
    /\ UNCHANGED <<data, rules, ruleIdx, validationIdx, fieldValue, validationErrs, trace,
                   memo, arg, applied, outcome>>

\* a validation runs, and a failure ends the rule's loop
RunValidationFailFast ==
    /\ pc = "validations"
    /\ validationIdx <= Len(rules[ruleIdx].Validations)
    /\ LET rule == rules[ruleIdx]
           called == Apply(rule.Validations[validationIdx], fieldValue)
           validationErr == called.item
       IN  /\ ~called.panic
           /\ trace' = Append(trace, Event("call", ruleIdx, validationIdx, validationErr,
                                           IF validationErr # NoError THEN Len(validationErrs) + 1 ELSE 0))
           /\ IF validationErr # NoError
              THEN /\ validationErrs' = Append(validationErrs, [validationErr EXCEPT !.Field = rule.Field])
                   /\ validationIdx' = Len(rule.Validations) + 1
              ELSE /\ validationErrs' = validationErrs
                   /\ validationIdx' = validationIdx + 1
    /\ UNCHANGED <<data, rules, pc, ruleIdx, fieldValue, memo, arg, applied, outcome>>

\* validationErr := validation(fieldValue), appended when it is not the zero item
RunValidation ==
    /\ pc = "validations"
    /\ validationIdx <= Len(rules[ruleIdx].Validations)
    /\ LET rule == rules[ruleIdx]
           called == Apply(rule.Validations[validationIdx], fieldValue)
           validationErr == called.item
       IN  /\ ~called.panic
           /\ trace' = Append(trace, Event("call", ruleIdx, validationIdx, validationErr,
                                           IF validationErr # NoError THEN Len(validationErrs) + 1 ELSE 0))
           /\ validationErrs' =
                  IF validationErr # NoError
                  THEN Append(validationErrs, [validationErr EXCEPT !.Field = rule.Field])
                  ELSE validationErrs
    /\ validationIdx' = validationIdx + 1
    /\ UNCHANGED <<data, rules, pc, ruleIdx, fieldValue, memo, arg, applied, outcome>>

\* the validation panics: Validate does not return
ValidationPanics ==
    /\ pc = "validations"
    /\ validationIdx <= Len(rules[ruleIdx].Validations)
    /\ Apply(rules[ruleIdx].Validations[validationIdx], fieldValue).panic
    /\ pc' = "panicked"
    /\ UNCHANGED <<data, rules, ruleIdx, validationIdx, fieldValue, validationErrs, trace,
                   memo, arg, applied, outcome>>

\* the rule's validations are exhausted: next rule
EndRule ==
    /\ pc = "validations"
    /\ validationIdx > Len(rules[ruleIdx].Validations)
    /\ ruleIdx' = ruleIdx + 1
    /\ pc' = "rules"
    /\ UNCHANGED <<data, rules, validationIdx, fieldValue, validationErrs, trace,
                   memo, arg, applied, outcome>>

\* the rules are exhausted: return validationErrs
ReturnErrs ==
    /\ pc = "rules"
    /\ ruleIdx > Len(rules)
    /\ pc' = "returned"
    /\ UNCHANGED <<data, rules, ruleIdx, validationIdx, fieldValue, validationErrs, trace,
                   memo, arg, applied, outcome>>

Step ==
    \/ FieldNotFound
    \/ FieldResolved
    \/ FieldPanics
    \/ RunValidation
    \/ ValidationPanics
    \/ EndRule
    \/ ReturnErrs

\* one call of Validate
Next ==
    \/ \E d \in SampleRecords, rs \in RuleSets : pc = "idle" /\ Call(d, rs)
    \/ Step

Spec == Init /\ [][Next]_vars

(***************************************************************************)
(* Repeated calls: the caller keeps the arguments and the result of a      *)
(* call that returned, and calls again.                                    *)
(***************************************************************************)
Remember ==
    /\ pc = "returned"
    /\ memo' = [called |-> TRUE, data |-> data, rules |-> rules, result |-> validationErrs, later |-> 0]
    /\ UNCHANGED <<data, rules, pc, ruleIdx, validationIdx, fieldValue, validationErrs, trace,
                   arg, applied, outcome>>

NextCalls ==
    \/ \E d \in CallRecords, rs \in CallRuleSets : Call(d, rs)
    \/ Remember
    \/ Step

SpecCalls == Init /\ [][NextCalls]_vars

(***************************************************************************)
(* A single validator applied to a single value.                           *)
(***************************************************************************)
InitValidator ==
    /\ data = NilData
    /\ rules = <<>>
    /\ pc = "arg"
    /\ ruleIdx = 1
    /\ validationIdx = 1
    /\ fieldValue = NilValue
    /\ validationErrs = <<>>
    /\ trace = <<>>
    /\ memo = NoCall
    /\ arg \in SampleValues
    /\ applied = NoValidation
    /\ outcome = Pass

CallValidator(validation) ==
    /\ pc = "arg"
    /\ applied' = validation
    /\ outcome' = Apply(validation, arg)
    /\ pc' = "applied"
    /\ UNCHANGED <<data, rules, ruleIdx, validationIdx, fieldValue, validationErrs, trace, memo, arg>>

NextValidator == \E validation \in BuiltinValidations : CallValidator(validation)

SpecValidator == InitValidator /\ [][NextValidator]_vars

InitDate ==
    /\ data = NilData
    /\ rules = <<>>
    /\ pc = "arg"
    /\ ruleIdx = 1
    /\ validationIdx = 1
    /\ fieldValue = NilValue
    /\ validationErrs = <<>>
    /\ trace = <<>>
    /\ memo = NoCall
    /\ arg \in DateValues
    /\ applied = NoValidation
    /\ outcome = Pass

NextDate == CallValidator(Validation("DateValidation", 0))

SpecDate == InitDate /\ [][NextDate]_vars

(***************************************************************************)
(* Properties.                                                             *)
(***************************************************************************)
\* the record, behind its pointers, is a struct with a field whose json tag is f
TagMatches(d, f) ==
    /\ d.base = "struct"
    /\ \E k \in 1..Len(d.fields) : d.fields[k].tag = f

\* the value of the first field of the struct whose json tag is f
FirstMatch(d, f) ==
    LET first == CHOOSE k \in 1..Len(d.fields) :
                     /\ d.fields[k].tag = f
                     /\ \A m \in 1..(k - 1) : d.fields[m].tag # f
    IN  d.fields[first].value

EventsOf(r) == {k \in 1..Len(trace) : trace[k].rule = r}
NotFoundItem(f) == ValidationErrorItem(f, "field not found: " \o f)

\* C1: a rule whose Field matches no json tag of the record adds exactly one
\* item, {rule.Field, "field not found: <rule.Field>"}, to the output, none of
\* its validations is called, and the engine goes on with the next rule.
\* First conjunct: the rules already handled; second conjunct: the step that
\* handles such a rule.
C1_UnknownFieldOneItem ==
    /\ [](pc \in {"rules", "validations", "returned"} =>
            \A r \in 1..Len(rules) :
                (r < ruleIdx /\ ~TagMatches(data, rules[r].Field)) =>
                    /\ Cardinality(EventsOf(r)) = 1
                    /\ \A k \in EventsOf(r) :
                           /\ trace[k].op = "notfound"
                           /\ trace[k].at \in 1..Len(validationErrs)
                           /\ validationErrs[trace[k].at] = NotFoundItem(rules[r].Field))
    /\ [][(pc = "rules" /\ ruleIdx <= Len(rules) /\ ~TagMatches(data, rules[ruleIdx].Field)) =>
            /\ pc' = "rules"
            /\ ruleIdx' = ruleIdx + 1
            /\ validationErrs' = Append(validationErrs, NotFoundItem(rules[ruleIdx].Field))
            /\ Len(trace') = Len(trace) + 1
            /\ trace'[Len(trace')].op = "notfound"]_vars

\* Validate has returned; its first rule named an unknown field and has its
\* one item, and a validation of the second rule was called after it
C1_Witness ==
    /\ pc = "returned"
    /\ Len(rules) = 2
    /\ ~TagMatches(data, rules[1].Field)
    /\ rules[1].Validations # <<>>
    /\ validationErrs[1] = NotFoundItem(rules[1].Field)
    /\ \E k \in 1..Len(trace) : trace[k].op = "call" /\ trace[k].rule = 2

\* the rule has no "field not found" event
Resolved(r) == \A k \in EventsOf(r) : trace[k].op # "notfound"

\* the calls to expect: rule order, then validation order, of the resolved rules
RECURSIVE ExpectedCalls(_)
ExpectedCalls(r) ==
    IF r > Len(rules) THEN <<>>
    ELSE (IF Resolved(r) THEN [j \in 1..Len(rules[r].Validations) |-> <<r, j>>] ELSE <<>>)
         \o ExpectedCalls(r + 1)

IsCall(e) == e.op = "call"
Appended(e) == e.at > 0

\* <<rule, validation>> of call a comes before that of call b
Before(a, b) == \/ a.rule < b.rule
                \/ a.rule = b.rule /\ a.validation < b.validation

\* C2: the validation calls are made in rule order, then validation order,
\* none twice; the output so far is the items of the steps that produced one,
\* in the order of the steps: a call that returned a message has its item
\* there, a call that returned the empty item has none; and when Validate
\* returns, the calls made are exactly the validations of all resolved rules,
\* whatever the earlier ones returned.
C2_CollectsAllInOrder ==
    LET calls == SelectSeq(trace, IsCall)
        producing == SelectSeq(trace, Appended)
    IN  /\ \A k \in 1..Len(calls) : \A l \in (k + 1)..Len(calls) : Before(calls[k], calls[l])
        /\ Len(producing) = Len(validationErrs)
        /\ \A k \in 1..Len(producing) :
               /\ producing[k].at = k
               /\ validationErrs[k].Field = rules[producing[k].rule].Field
               /\ IsCall(producing[k]) => validationErrs[k].Message = producing[k].ret.Message
        /\ \A k \in 1..Len(calls) :
               /\ calls[k].ret.Message # "" => Appended(calls[k])
               /\ calls[k].ret = NoError => ~Appended(calls[k])
        /\ pc = "returned" =>
               [k \in 1..Len(calls) |-> <<calls[k].rule, calls[k].validation>>] = ExpectedCalls(1)

\* validations [A, B, C] of one rule where A and C failed and B passed: all
\* three were called and the output is A's item, then C's
C2_Witness ==
    /\ pc = "returned"
    /\ Len(rules) = 1
    /\ Len(trace) = 3
    /\ trace[1].ret.Message # "" /\ trace[2].ret = NoError /\ trace[3].ret.Message # ""
    /\ validationErrs = <<ValidationErrorItem(rules[1].Field, trace[1].ret.Message),
                          ValidationErrorItem(rules[1].Field, trace[3].ret.Message)>>

Absent(value) == value = NilValue \/ value = StringValue(<<>>)

C4_NeverPanics ==
    pc = "applied" => ~outcome.panic

EmptyUser(d) ==
    /\ d.base = "struct"
    /\ d.fields = <<StructField("name", TRUE, StringValue(<<>>)),
                    StructField("password", TRUE, StringValue(<<>>))>>

\* a rule [Required, MinLength(n), MaxLength(m)] with n > 0
RequiredMinMax(rule) ==
    /\ Len(rule.Validations) = 3
    /\ rule.Validations[1].fn = "RequiredValidation"
    /\ rule.Validations[2].fn = "MinLengthValidation"
    /\ rule.Validations[2].cfg > 0
    /\ rule.Validations[3].fn = "MaxLengthValidation"

TwoEmptyFields ==
    /\ pc = "returned"
    /\ EmptyUser(data)
    /\ Len(rules) = 2
    /\ rules[1].Field = "name"
    /\ rules[2].Field = "password"
    /\ RequiredMinMax(rules[1])
    /\ RequiredMinMax(rules[2])

AtLeast(n) == "Field must be at least " \o ToString(n) \o " characters long"

C6_RequiredIffPresent ==
    (pc = "applied" /\ applied.fn = "RequiredValidation") =>
        LET missing == \/ arg.kind = "nil"
                       \/ arg.kind = "string" /\ Len(arg.str) = 0
                       \/ arg.kind \in {"slice", "map"} /\ arg.n = 0
        IN  /\ ~outcome.panic
            /\ outcome.item = IF missing THEN ValidationErrorItem("", "Field is required")
                              ELSE ValidationErrorItem("", "")

\* RequiredValidation was given an empty map and failed
C6_Witness ==
    /\ pc = "applied"
    /\ applied.fn = "RequiredValidation"
    /\ arg = MapValue(0)
    /\ outcome.item.Message = "Field is required"

\* the calendar: the number of days of month m of year y
MonthLength(y, m) ==
    IF m = 2
    THEN (IF (y % 4 = 0 /\ y % 100 # 0) \/ y % 400 = 0 THEN 29 ELSE 28)
    ELSE <<31, 0, 31, 30, 31, 30, 31, 31, 30, 31, 30, 31>>[m]

Number(s) == LET d(k) == DigitVal[s[k]]
             IN  IF Len(s) = 4 THEN 1000 * d(1) + 100 * d(2) + 10 * d(3) + d(4)
                 ELSE 10 * d(1) + d(2)

DateShaped(s) ==
    /\ Len(s) = 10
    /\ s[5] = "-" /\ s[8] = "-"
    /\ \A k \in (1..10) \ {5, 8} : s[k] \in Digits

RealDate(s) ==
    LET y == Number(SubSeq(s, 1, 4))
        m == Number(SubSeq(s, 6, 7))
        d == Number(SubSeq(s, 9, 10))
    IN  m \in 1..12 /\ d >= 1 /\ d <= MonthLength(y, m)

\* C7: DateValidation of a non-empty string: not of the shape
\* dddd-dd-dd, "Invalid date format"; else not a date of the calendar,
\* "Invalid date"; else year outside 1..9999, "Invalid year"; else pass.
C7_DateChecksInOrder ==
    (pc = "applied" /\ applied.fn = "DateValidation" /\ arg.kind = "string" /\ arg.str # <<>>) =>
        /\ ~outcome.panic
        /\ outcome.item.Field = ""
        /\ outcome.item.Message =
               IF ~DateShaped(arg.str) THEN "Invalid date format"
               ELSE IF ~RealDate(arg.str) THEN "Invalid date"
               ELSE IF Number(SubSeq(arg.str, 1, 4)) \notin 1..9999 THEN "Invalid year"
               ELSE ""

\* "2023-02-30" was rejected with "Invalid date"
C7_Witness ==
    /\ pc = "applied"
    /\ applied.fn = "DateValidation"
    /\ arg = StringValue(<<"2", "0", "2", "3", "-", "0", "2", "-", "3", "0">>)
    /\ outcome.item.Message = "Invalid date"

\* C8: a call of Validate with the record and the rules of an earlier call
\* returns the list the earlier call returned, whatever was called in between;
\* and while a call runs its record and rules do not change.
C8_Deterministic ==
    /\ []((pc = "returned" /\ memo.called /\ memo.later > 0
              /\ memo.data = data /\ memo.rules = rules) =>
            validationErrs = memo.result)
    /\ [][(pc = "rules" \/ pc = "validations") => (data' = data /\ rules' = rules)]_vars

\* a call returned a non-empty list, at least two calls after a remembered
\* call with the same record and rules
C8_Witness ==
    /\ pc = "returned"
    /\ memo.called
    /\ memo.later = 2
    /\ memo.data = data
    /\ memo.rules = rules
    /\ Len(validationErrs) >= 2

LookupAsTagged ==
    (pc = "rules" /\ ruleIdx <= Len(rules)) =>
        LET f == rules[ruleIdx].Field
        IN  IF TagMatches(data, f)
            THEN /\ pc' = "validations"
                 /\ fieldValue' = FirstMatch(data, f)
                 /\ validationErrs' = validationErrs
            ELSE /\ pc' = "rules"
                 /\ validationErrs' = Append(validationErrs, NotFoundItem(f))

\* C9: the lookup of a rule's field fails with "field not found" exactly when
\* no field of the struct has the rule's Field as its json tag (or the record
\* is no struct); when a tag matches, the value of the first such field,
\* whatever it is, is what the rule's validations are then run on.
C9_ResolvesIffTagged ==
    [][LookupAsTagged]_vars

\* C10: a validation call adds an item exactly when it returned a non-empty
\* message, the item carries the rule's Field, and so every item of the output
\* has a non-empty message and the Field of its rule.
C10_ItemIffMessage ==
    pc \in {"rules", "validations", "returned"} =>
        /\ \A k \in 1..Len(trace) :
               trace[k].op = "call" =>
                   /\ (trace[k].at > 0) <=> (trace[k].ret.Message # "")
                   /\ trace[k].at > 0 => validationErrs[trace[k].at].Field = rules[trace[k].rule].Field
        /\ \A n \in 1..Len(validationErrs) : validationErrs[n].Message # ""
====
